---- MODULE Spec2Model ----
(***************************************************************************)
(* Model of deepdrive_ci.ContainerSpawner.spawn_container: decentralised   *)
(* placement of a labelled container on one EC2 host of a shared pool,     *)
(* wrapped in tenacity's bounded retry.  Each concurrent caller is a       *)
(* process with a program counter; every blocking collaborator call of     *)
(* the source is one step.                                                 *)
(***************************************************************************)
EXTENDS Integers, Sequences, FiniteSets, TLC

\* ---------------------------------------------------------------- bounds
MaxCap == 2
MaxFaults == 1
MaxRandomStep == 1

\* ------------------------------------------------------ program constants
MaxAttempts == 5
DefaultMaxContainers == 1
BackdownLow == 60
BackdownHigh == 180

Hosts == {1, 2}
Calls == {1, 2, 3}
NoTag == -1
None == [none |-> TRUE]
Label == "io.deepdrive.ci"
OtherLabel == "system"

VARIABLES
    max_containers,   \* self._max_containers
    tags,             \* per host: value of the capacity tag, or NoTag
    pool,             \* hosts matched by the pool filter
    hostState,        \* per host: "stopped" | "pending" | "running"
    docker,           \* running containers of the hosts' Docker daemons
    clock,            \* source of creation timestamps
    pc,               \* per call: position in spawn_container
    attempt,          \* per call: tenacity attempt number
    listed,           \* per call: instance state as returned by the pool listing, or <<>>
    instances,        \* per call: list of details built so far
    selected,         \* per call: the selected details, or None
    container,        \* per call: container started in this attempt, or None
    backdown,         \* per call: sampled backdown of this attempt, or None
    starts,           \* per call: start commands issued since the last pool listing
    faults,           \* collaborator errors raised so far
    initial           \* the hosts and their containers when the calls were made

vars == <<max_containers, tags, pool, hostState, docker, clock, pc, attempt,
          listed, instances, selected, container, backdown, starts, faults, initial>>

env == <<max_containers, tags, pool, initial>>
locals == <<listed, instances, selected, container, backdown, starts>>

\* ------------------------------------------------------------- helpers
Max(a, b) == IF a > b THEN a ELSE b
Min(a, b) == IF a < b THEN a ELSE b

RECURSIVE SortedSeq(_)
SortedSeq(S) ==
    IF S = {} THEN <<>>
    ELSE LET m == CHOOSE x \in S : \A y \in S : x <= y
         IN <<m>> \o SortedSeq(S \ {m})

Range(s) == {s[i] : i \in 1..Len(s)}

\* Python's  lst[k:]  for any integer k
SliceFrom(lst, k) ==
    LET n == Len(lst)
        start == IF k < 0 THEN Max(n + k, 0) ELSE Min(k, n)
    IN SubSeq(lst, start + 1, n)

\* containers.list(filters={'label': label}) on host h: running containers carrying the label
RunningContainersWith(h, label) ==
    {c \in docker : c.host = h /\ c.label = label}

\* RunningContainers without the label filter
RunningContainersAnyLabel(h) == {c \in docker : c.host = h}

RunningContainers(h) == RunningContainersWith(h, Label)

HasCapacity(instance) ==
    instance.running = TRUE /\ instance.docker /\ instance.containers < instance.capacity

DetectedCapacity(h) == IF tags[h] # NoTag THEN tags[h] ELSE max_containers

\* GetInstanceDetails connecting to the daemon whatever the instance state is
GetInstanceDetailsAnyState(h, state, reachable, counted) ==
    [instance |-> h,
     capacity |-> DetectedCapacity(h),
     running |-> (state = "running"),
     docker |-> reachable,
     containers |-> IF reachable /\ counted
                    THEN Cardinality(RunningContainers(h)) ELSE 0]

\* _get_instance_details: state is the instance state the EC2 resource holds,
\* reachable tells whether connecting to and pinging the daemon succeeded, counted
\* whether the container listing that follows succeeded.  details['docker'] is
\* assigned before the listing is made, so it stays set when the listing raises.
GetInstanceDetails(h, state, reachable, counted) ==
    LET isRunning == (state = "running")
        connected == isRunning /\ reachable
    IN [instance |-> h,
        capacity |-> DetectedCapacity(h),
        running |-> isRunning,
        docker |-> connected,
        containers |-> IF connected /\ counted
                       THEN Cardinality(RunningContainers(h)) ELSE 0]

PoolSeq == SortedSeq(pool)

\* ---------------------------------------------------------------- Init
InitCalls(n) ==
    /\ pc = [p \in Calls |-> IF p <= n THEN "list" ELSE "idle"]
    /\ attempt = [p \in Calls |-> 1]
    /\ listed = [p \in Calls |-> <<>>]
    /\ instances = [p \in Calls |-> <<>>]
    /\ selected = [p \in Calls |-> None]
    /\ container = [p \in Calls |-> None]
    /\ backdown = [p \in Calls |-> None]
    /\ starts = [p \in Calls |-> 0]
    /\ faults = 0

\* Initial daemon contents: occ[h] labelled containers on host h and, when sys,
\* one container of another label on every running host
InitialContainers(occ, sys) ==
    {c \in [id : 1..(Cardinality(Hosts) * (MaxCap + 1)), host : Hosts,
            label : {Label, OtherLabel}, owner : {0}] :
        LET i == c.id - (c.host - 1) * (MaxCap + 1)
        IN IF c.label = Label THEN i \in 1..occ[c.host]
           ELSE i = MaxCap + 1 /\ sys /\ hostState[c.host] = "running"}

FirstStamp == Cardinality(Hosts) * (MaxCap + 1) + 1

\* A pool whose running hosts hold no more labelled containers than their capacity
InitEnv(defaults, pools, tagValues, others) ==
    /\ max_containers \in defaults
    /\ pool \in pools
    /\ tags \in [Hosts -> tagValues]
    /\ hostState \in [Hosts -> {"stopped", "running"}]
    /\ \A h \in Hosts \ pool : tags[h] = NoTag /\ hostState[h] = "stopped"
    /\ \E occ \in [Hosts -> 0..MaxCap], sys \in others :
        /\ \A h \in Hosts : hostState[h] = "stopped" => occ[h] = 0
        /\ \A h \in Hosts : occ[h] <= DetectedCapacity(h)
        /\ sys => \E h \in Hosts : hostState[h] = "running"
        /\ docker = InitialContainers(occ, sys)
    /\ clock = FirstStamp
    /\ initial = [hostState |-> hostState, docker |-> docker]

\* one caller against any pool of one or two hosts
InitAlone ==
    /\ InitEnv({DefaultMaxContainers}, SUBSET Hosts \ {{}}, {NoTag} \cup 0..MaxCap, BOOLEAN)
    /\ InitCalls(1)

\* two callers against a pool of one host
InitPair ==
    /\ InitEnv({DefaultMaxContainers}, {{1}}, {NoTag} \cup 0..MaxCap, {FALSE})
    /\ InitCalls(2)

Init == InitAlone \/ InitPair

\* three callers of a spawner constructed with max_containers = 3 against a pool of
\* an empty host tagged with capacity 1 and an untagged host running one container
InitThree ==
    /\ InitEnv({3}, {{1, 2}}, {NoTag, 1}, {FALSE})
    /\ tags[1] = 1 /\ tags[2] = NoTag
    /\ hostState[1] = "running" /\ hostState[2] = "running"
    /\ Cardinality(RunningContainers(1)) = 0
    /\ Cardinality(RunningContainers(2)) = 1
    /\ InitCalls(3)

InitCrowd == InitPair \/ InitThree

\* ------------------------------------------------------------ the retry wrapper
\* the frame of one invocation of spawn_container is dropped
Fresh(p) ==
    /\ listed' = [listed EXCEPT ![p] = <<>>]
    /\ instances' = [instances EXCEPT ![p] = <<>>]
    /\ selected' = [selected EXCEPT ![p] = None]
    /\ backdown' = [backdown EXCEPT ![p] = None]
    /\ starts' = [starts EXCEPT ![p] = 0]

\* raise HostSelectionRestart: the exception travels to the retry wrapper
RaiseRestart(p) ==
    /\ pc' = [pc EXCEPT ![p] = "restart"]
    /\ Fresh(p)

\* an exception other than HostSelectionRestart leaves spawn_container
Raise(p) ==
    /\ faults < MaxFaults
    /\ faults' = faults + 1
    /\ pc' = [pc EXCEPT ![p] = "error"]
    /\ container' = [container EXCEPT ![p] = None]
    /\ Fresh(p)

\* Retry with the attempt cap off by one
RetryOneMore(p) ==
    /\ pc[p] = "restart"
    /\ IF attempt[p] < MaxAttempts + 1
       THEN /\ attempt' = [attempt EXCEPT ![p] = @ + 1]
            /\ pc' = [pc EXCEPT ![p] = "list"]
       ELSE /\ pc' = [pc EXCEPT ![p] = "failed"]
            /\ UNCHANGED attempt
    /\ container' = [container EXCEPT ![p] = None]
    /\ UNCHANGED <<env, hostState, docker, clock, listed, instances, selected,
                   backdown, starts, faults>>

\* tenacity: retry_if_exception_type(HostSelectionRestart), stop_after_attempt(5)
Retry(p) ==
    /\ pc[p] = "restart"
    /\ IF attempt[p] < MaxAttempts
       THEN /\ attempt' = [attempt EXCEPT ![p] = @ + 1]
            /\ pc' = [pc EXCEPT ![p] = "list"]
       ELSE /\ pc' = [pc EXCEPT ![p] = "failed"]
            /\ UNCHANGED attempt
    /\ container' = [container EXCEPT ![p] = None]
    /\ UNCHANGED <<env, hostState, docker, clock, listed, instances, selected,
                   backdown, starts, faults>>

\* ------------------------------------------------------------ enumeration
ListPool(p) ==
    /\ pc[p] = "list"
    /\ listed' = [listed EXCEPT ![p] = [h \in pool |-> hostState[h]]]
    /\ pc' = [pc EXCEPT ![p] = "probe"]
    /\ UNCHANGED <<env, hostState, docker, clock, attempt, instances, selected,
                   container, backdown, starts, faults>>

ListPoolFail(p) ==
    /\ pc[p] = "list"
    /\ Raise(p)
    /\ UNCHANGED <<env, hostState, docker, clock, attempt>>

NextInstance(p) == PoolSeq[Len(instances[p]) + 1]

Probed(p, reachable, counted) ==
    /\ pc[p] = "probe"
    /\ LET h == NextInstance(p)
           details == GetInstanceDetails(h, listed[p][h], reachable, counted)
       IN /\ (reachable /\ counted) \/ listed[p][h] = "running"
          /\ instances' = [instances EXCEPT ![p] = Append(@, details)]
          /\ IF Len(instances[p]) + 1 = Len(PoolSeq)
             THEN /\ pc' = [pc EXCEPT ![p] = "select"]
                  /\ listed' = [listed EXCEPT ![p] = <<>>]
             ELSE UNCHANGED <<pc, listed>>
    /\ UNCHANGED <<env, hostState, docker, clock, attempt, selected,
                   container, backdown, starts>>

Probe(p) == Probed(p, TRUE, TRUE) /\ UNCHANGED faults

\* DockerClient(...) or client.ping() raises: except: pass
ProbeFail(p) ==
    /\ faults < MaxFaults
    /\ faults' = faults + 1
    /\ Probed(p, FALSE, TRUE)

\* self._running_containers(details) raises after details['docker'] = client
ProbeCountFail(p) ==
    /\ faults < MaxFaults
    /\ faults' = faults + 1
    /\ Probed(p, TRUE, FALSE)

\* ------------------------------------------------------------ selection
RunningOf(insts) == {i \in Range(insts) : HasCapacity(i)}

\* StoppedOf taking every instance without capacity for a stopped one
StoppedOfNoCapacity(insts) == {i \in Range(insts) : ~HasCapacity(i)}

StoppedOf(insts) == {i \in Range(insts) : i.running = FALSE}

MinContainers(running) ==
    CHOOSE m \in {i.containers : i \in running} : \A i \in running : m <= i.containers

\* Candidates without the minimum filter
CandidatesAny(running) == running

Candidates(running) == {i \in running : i.containers = MinContainers(running)}

\* random.choice(candidates): the attempt picks candidate i
SelectRunning(p, i) ==
    /\ pc[p] = "select"
    /\ RunningOf(instances[p]) # {}
    /\ i \in Candidates(RunningOf(instances[p]))
    /\ selected' = [selected EXCEPT ![p] = i]
    /\ instances' = [instances EXCEPT ![p] = <<>>]
    /\ pc' = [pc EXCEPT ![p] = "launch"]
    /\ UNCHANGED <<env, hostState, docker, clock, attempt, listed,
                   container, backdown, starts, faults>>

\* the provider's reaction to instance.start()
StartCommand(h) ==
    [hostState EXCEPT ![h] = IF @ = "stopped" THEN "pending" ELSE @]

\* random.choice(stopped) followed by selected['instance'].start()
StartInstance(p, i) ==
    /\ pc[p] = "select"
    /\ RunningOf(instances[p]) = {}
    /\ i \in StoppedOf(instances[p])
    /\ selected' = [selected EXCEPT ![p] = i]
    /\ hostState' = StartCommand(i.instance)
    /\ starts' = [starts EXCEPT ![p] = @ + 1]
    /\ instances' = [instances EXCEPT ![p] = <<>>]
    /\ pc' = [pc EXCEPT ![p] = "wait"]
    /\ UNCHANGED <<env, docker, clock, attempt, listed, container,
                   backdown, faults>>

StartInstanceFail(p, i) ==
    /\ pc[p] = "select"
    /\ RunningOf(instances[p]) = {}
    /\ i \in StoppedOf(instances[p])
    /\ Raise(p)
    /\ UNCHANGED <<env, hostState, docker, clock, attempt>>

\* the provider brings a started instance up
HostBoot(h) ==
    /\ hostState[h] = "pending"
    /\ hostState' = [hostState EXCEPT ![h] = "running"]
    /\ UNCHANGED <<env, docker, clock, pc, attempt, locals, faults>>

WaitUntilRunning(p) ==
    /\ pc[p] = "wait"
    /\ hostState[selected[p].instance] = "running"
    /\ pc' = [pc EXCEPT ![p] = "grace"]
    /\ UNCHANGED <<env, hostState, docker, clock, attempt, locals, faults>>

WaitUntilRunningFail(p) ==
    /\ pc[p] = "wait"
    /\ Raise(p)
    /\ UNCHANGED <<env, hostState, docker, clock, attempt>>

\* StartupSleep going on to the launch without the probe of the started host
StartupSleepNoProbe(p) ==
    /\ pc[p] = "grace"
    /\ pc' = [pc EXCEPT ![p] = "launch"]
    /\ UNCHANGED <<env, hostState, docker, clock, attempt, locals, faults>>

\* time.sleep(self._startup_time)
StartupSleep(p) ==
    /\ pc[p] = "grace"
    /\ pc' = [pc EXCEPT ![p] = "reprobe"]
    /\ UNCHANGED <<env, hostState, docker, clock, attempt, locals, faults>>

Reprobed(p, reachable, counted) ==
    /\ pc[p] = "reprobe"
    /\ LET h == selected[p].instance
           details == GetInstanceDetails(h, hostState[h], reachable, counted)
       IN IF details.docker
          THEN /\ selected' = [selected EXCEPT ![p] = details]
               /\ pc' = [pc EXCEPT ![p] = "launch"]
               /\ UNCHANGED <<listed, instances, container, backdown, starts>>
          ELSE RaiseRestart(p) /\ UNCHANGED container
    /\ UNCHANGED <<env, hostState, docker, clock, attempt>>

Reprobe(p) == Reprobed(p, TRUE, TRUE) /\ UNCHANGED faults

ReprobeFail(p) ==
    /\ faults < MaxFaults
    /\ faults' = faults + 1
    /\ Reprobed(p, FALSE, TRUE)

\* the container listing of the probe after a start raises: selected['docker'] is set
ReprobeCountFail(p) ==
    /\ faults < MaxFaults
    /\ faults' = faults + 1
    /\ pc[p] = "reprobe"
    /\ hostState[selected[p].instance] = "running"
    /\ Reprobed(p, TRUE, FALSE)

\* ------------------------------------------------------------ backdown
\* round-half-even of num / den, the rounding of IEEE-754 double arithmetic
RoundHalfEven(num, den) ==
    LET q == num \div den
        r == num % den
    IN IF 2 * r < den THEN q
       ELSE IF 2 * r > den THEN q + 1
       ELSE IF q % 2 = 0 THEN q ELSE q + 1

\* Outputs of random.random(), multiples of 2^-53 in [0, 1): the k-th value above 0
\* (fromTop = FALSE, k >= 0) or the k-th value below 1 (fromTop = TRUE, k >= 1)
RandomValues ==
    [k : 0..MaxRandomStep, fromTop : {FALSE}] \cup [k : 1..MaxRandomStep, fromTop : {TRUE}]

\* Uniform computing a + b * random() instead of a + (b - a) * random()
UniformNoOffset(r) ==
    IF r.fromTop
    THEN [base |-> BackdownLow + BackdownHigh, off |-> 0 - r.k]
    ELSE [base |-> BackdownLow, off |-> r.k]

\* random.uniform(60, 180) = 60 + (180 - 60) * random() in double arithmetic.
\* The result is base + off ulps: ulps of 2^-47 above 60, of 2^-45 below 180.
\* Below 1 the product is rounded to the 2^-46 grid of [64, 128) (2^-53 = 2^-46 / 128)
\* and the sum to the 2^-45 grid of [128, 256); above 0 the product is exact and
\* the sum is rounded to the 2^-47 grid of [32, 64) (2^-53 = 2^-47 / 64).
Uniform(r) ==
    IF r.fromTop
    THEN LET product == RoundHalfEven((BackdownHigh - BackdownLow) * r.k, 128)
         IN [base |-> BackdownHigh, off |-> 0 - RoundHalfEven(product, 2)]
    ELSE [base |-> BackdownLow,
          off |-> RoundHalfEven((BackdownHigh - BackdownLow) * r.k, 64)]

\* random.uniform(60, 180), then time.sleep(backdown) begins
Backdown(p, r) ==
    /\ pc[p] = "select"
    /\ RunningOf(instances[p]) = {}
    /\ StoppedOf(instances[p]) = {}
    /\ backdown' = [backdown EXCEPT ![p] = Uniform(r)]
    /\ instances' = [instances EXCEPT ![p] = <<>>]
    /\ pc' = [pc EXCEPT ![p] = "backdown"]
    /\ UNCHANGED <<env, hostState, docker, clock, attempt, listed,
                   selected, container, starts, faults>>

\* BackdownElapsed raising an exception the retry wrapper does not retry on
BackdownElapsedFatal(p) ==
    /\ pc[p] = "backdown"
    /\ Raise(p)
    /\ UNCHANGED <<env, hostState, docker, clock, attempt>>

\* time.sleep(backdown) returns and HostSelectionRestart is raised
BackdownElapsed(p) ==
    /\ pc[p] = "backdown"
    /\ RaiseRestart(p)
    /\ UNCHANGED <<env, hostState, docker, clock, attempt, container, faults>>

\* ------------------------------------------------------------ launch
LaunchLabel == Label

\* DockerUtils.start_for_exec(selected['docker'], image, labels=[self._label])
StartForExec(p) ==
    /\ pc[p] = "launch"
    /\ LET c == [id |-> clock, host |-> selected[p].instance, label |-> LaunchLabel,
           owner |-> p]
       IN /\ docker' = docker \cup {c}
          /\ container' = [container EXCEPT ![p] = c]
    /\ clock' = clock + 1
    /\ pc' = [pc EXCEPT ![p] = "verify"]
    /\ UNCHANGED <<env, hostState, attempt, listed, instances, selected,
                   backdown, starts, faults>>

\* StartForExecFail without the try/except around the launch
StartForExecFailUncaught(p) ==
    /\ pc[p] = "launch"
    /\ Raise(p)
    /\ UNCHANGED <<env, hostState, docker, clock, attempt>>

\* start_for_exec raises: the bare except turns it into HostSelectionRestart
StartForExecFail(p) ==
    /\ pc[p] = "launch"
    /\ faults < MaxFaults
    /\ faults' = faults + 1
    /\ RaiseRestart(p)
    /\ UNCHANGED <<env, hostState, docker, clock, attempt, container>>

\* ------------------------------------------------------------ reconciliation
Created(containers) == SortedSeq({c.id : c \in containers})

\* surplus = created[ (len(containers) - self._max_containers)-1 : ]
Surplus(containers) ==
    SliceFrom(Created(containers), (Cardinality(containers) - max_containers) - 1)

\* IsSurplus comparing with >= instead of >
IsSurplusAtCapacity(containers, instance, c) ==
    /\ Cardinality(containers) >= instance.capacity
    /\ c.id \in Range(Surplus(containers))

\* if len(containers) > selected['capacity'] and our container is in surplus
IsSurplus(containers, instance, c) ==
    /\ Cardinality(containers) > instance.capacity
    /\ c.id \in Range(Surplus(containers))

\* the occupancy re-query and the decision taken on its result:
\* either the container is to be stopped or it is returned
Verify(p) ==
    /\ pc[p] = "verify"
    /\ IF IsSurplus(RunningContainers(selected[p].instance), selected[p], container[p])
       THEN /\ pc' = [pc EXCEPT ![p] = "stop"]
            /\ UNCHANGED locals
       ELSE /\ pc' = [pc EXCEPT ![p] = "done"]
            /\ Fresh(p)
            /\ UNCHANGED container
    /\ UNCHANGED <<env, hostState, docker, clock, attempt, faults>>

VerifyFail(p) ==
    /\ pc[p] = "verify"
    /\ Raise(p)
    /\ UNCHANGED <<env, hostState, docker, clock, attempt>>

\* StopSurplus stopping the newest container of the host instead of its own
StopSurplusNewest(p) ==
    /\ pc[p] = "stop"
    /\ docker' = docker \ {c \in RunningContainers(container[p].host) :
                              \A d \in RunningContainers(container[p].host) : d.id <= c.id}
    /\ RaiseRestart(p)
    /\ UNCHANGED <<env, hostState, clock, attempt, container, faults>>

\* container.stop(), then HostSelectionRestart
StopSurplus(p) ==
    /\ pc[p] = "stop"
    /\ docker' = docker \ {container[p]}
    /\ RaiseRestart(p)
    /\ UNCHANGED <<env, hostState, clock, attempt, container, faults>>

\* container.stop() raises, having stopped the container or not
StopSurplusFail(p, took) ==
    /\ pc[p] = "stop"
    /\ docker' = IF took THEN docker \ {container[p]} ELSE docker
    /\ Raise(p)
    /\ UNCHANGED <<env, hostState, clock, attempt>>

\* ------------------------------------------------------------ specifications
Steps(p) ==
    \/ ListPool(p)
    \/ Probe(p)
    \/ \E i \in Range(instances[p]) : SelectRunning(p, i)
    \/ \E i \in Range(instances[p]) : StartInstance(p, i)
    \/ WaitUntilRunning(p)
    \/ StartupSleep(p)
    \/ Reprobe(p)
    \/ \E r \in RandomValues : Backdown(p, r)
    \/ BackdownElapsed(p)
    \/ StartForExec(p)
    \/ Verify(p)
    \/ StopSurplus(p)
    \/ Retry(p)

Failures(p) ==
    \/ ListPoolFail(p)
    \/ ProbeFail(p)
    \/ ProbeCountFail(p)
    \/ \E i \in Range(instances[p]) : StartInstanceFail(p, i)
    \/ WaitUntilRunningFail(p)
    \/ ReprobeFail(p)
    \/ ReprobeCountFail(p)
    \/ StartForExecFail(p)
    \/ VerifyFail(p)
    \/ \E took \in BOOLEAN : StopSurplusFail(p, took)

Provider == \E h \in Hosts : HostBoot(h)

Next ==
    \/ \E p \in Calls : Steps(p)
    \/ \E p \in Calls : Failures(p)
    \/ Provider

Spec == Init /\ [][Next]_vars

\* runs in which no collaborator raises an error
NextQuiet ==
    \/ \E p \in Calls : Steps(p)
    \/ Provider

SpecQuiet == InitCrowd /\ [][NextQuiet]_vars

\* a job placed before the calls were made ends: run_job leaves the
\* automatically_stop block and its container stops
ContainerExit(c) ==
    /\ c \in docker
    /\ c.owner = 0 /\ c.label = Label
    /\ docker' = docker \ {c}
    /\ UNCHANGED <<env, hostState, clock, pc, attempt, locals, faults>>

\* one caller, no collaborator error, earlier jobs ending while it runs
NextExit ==
    \/ \E p \in Calls : Steps(p)
    \/ Provider
    \/ \E c \in docker : ContainerExit(c)

\* a call that can take a step takes one (every collaborator call and every sleep
\* returns) and a started instance comes up
FairExit == WF_vars(\E p \in Calls : Steps(p)) /\ WF_vars(Provider)

SpecExit == InitAlone /\ [][NextExit]_vars /\ FairExit

\* a host is shut down from outside while no call is launching on it or
\* reconciling it: its containers go with it
HostShutdown(h) ==
    /\ h \in pool
    /\ hostState[h] = "running"
    /\ \A p \in Calls : pc[p] \in {"launch", "verify", "stop"} => selected[p].instance # h
    /\ hostState' = [hostState EXCEPT ![h] = "stopped"]
    /\ docker' = {c \in docker : c.host # h}
    /\ UNCHANGED <<env, clock, pc, attempt, locals, faults>>

\* one caller, no collaborator error, hosts shut down while it runs
NextShutdown ==
    \/ \E p \in Calls : Steps(p)
    \/ Provider
    \/ \E h \in Hosts : HostShutdown(h)

SpecShutdown == InitAlone /\ [][NextShutdown]_vars

TypeOK ==
    /\ pc \in [Calls -> {"idle", "list", "probe", "select", "wait", "grace", "reprobe",
                         "backdown", "launch", "verify", "stop", "restart",
                         "done", "failed", "error"}]
    /\ attempt \in [Calls -> 1..MaxAttempts]
    /\ faults \in 0..MaxFaults
    /\ hostState \in [Hosts -> {"stopped", "pending", "running"}]

\* ------------------------------------------------------------ claims
Occupancy(h) == Cardinality(RunningContainers(h))

InitialOccupancy(h) ==
    Cardinality({c \in initial.docker : c.host = h /\ c.label = Label})

Finished(p) == pc[p] \in {"idle", "done", "failed", "error"}

\* calls p and q are the only ones that were made
TwoWay(p, q) == p # q /\ \A r \in Calls \ {p, q} : pc[r] = "idle"

\* call p has run the reconciliation of the attempt that launched container[p]
Reconciled(p) == container[p] # None /\ pc[p] \in {"done", "restart"}

\* C1: with every host starting within its capacity, once every call has finished
\* (returned a container or ended with an error) every host of the pool runs no more
\* labelled containers than its capacity.
C1_FinalOccupancyWithinCapacity ==
    (/\ \A h \in pool : InitialOccupancy(h) <= DetectedCapacity(h)
     /\ \A p \in Calls : Finished(p))
        => \A h \in pool : Occupancy(h) <= DetectedCapacity(h)

\* C2: when exactly two calls both launched on a host that had one free slot, so that
\* it ran capacity + 1 labelled containers, then after both calls have run their
\* reconciliation exactly capacity labelled containers run on that host.
C2_RaceLeavesExactlyCapacity ==
    \A p, q \in Calls : \A h \in pool :
        (/\ TwoWay(p, q)
         /\ InitialOccupancy(h) = DetectedCapacity(h) - 1
         /\ Reconciled(p) /\ container[p].host = h
         /\ Reconciled(q) /\ container[q].host = h)
            => Occupancy(h) = DetectedCapacity(h)

\* C3: in a two-way race for the last slot of a host, a call that stopped its own
\* container while the other call's container runs on that host holds the container
\* with the later creation timestamp: the earlier one is never the one stopped.
C3_LaterCreatedIsStopped ==
    \A p, q \in Calls :
        (/\ TwoWay(p, q)
         /\ container[p] # None /\ container[q] # None
         /\ container[p].host = container[q].host
         /\ InitialOccupancy(container[p].host) = DetectedCapacity(container[p].host) - 1
         /\ pc[p] = "restart"
         /\ container[q] \in docker)
            => container[p].id > container[q].id

\* call p takes a step
Moved(p) ==
    \/ pc'[p] # pc[p]
    \/ attempt'[p] # attempt[p]
    \/ instances'[p] # instances[p]

\* a collaborator called by p raises in this step
Faulted(p) == Moved(p) /\ faults' # faults

\* number of steps call p can still take in its current attempt, at most
Rank(p) ==
    CASE pc[p] = "list" -> 10 + Cardinality(Hosts)
      [] pc[p] = "probe" -> 9 + Len(PoolSeq) - Len(instances[p])
      [] pc[p] = "select" -> 9
      [] pc[p] = "wait" -> 8
      [] pc[p] = "grace" -> 7
      [] pc[p] \in {"reprobe", "backdown"} -> 6
      [] pc[p] = "launch" -> 5
      [] pc[p] = "verify" -> 4
      [] pc[p] = "stop" -> 3
      [] pc[p] = "restart" -> 2
      [] OTHER -> 0

Measure(p) == (MaxAttempts - attempt[p]) * (11 + Cardinality(Hosts)) + Rank(p)

\* C4: a call runs at most 5 attempts; a new attempt begins only after the previous
\* one ended with HostSelectionRestart; a call that ended with another error or with
\* retry exhaustion takes no further step; the fifth HostSelectionRestart ends the
\* call with a fatal error; every step of a call lowers a natural-number measure,
\* so the call terminates when each collaborator call returns.
C4_BoundedRetry ==
    [][\A p \in Calls :
        /\ attempt'[p] \in 1..MaxAttempts
        /\ (attempt'[p] # attempt[p] \/ (pc'[p] = "list" /\ pc[p] # "list"))
              => /\ pc[p] = "restart" /\ attempt[p] < MaxAttempts
                 /\ attempt'[p] = attempt[p] + 1 /\ pc'[p] = "list"
        /\ pc[p] \in {"error", "failed", "done"} => ~Moved(p)
        /\ (pc'[p] = "failed" /\ pc[p] # "failed")
              => pc[p] = "restart" /\ attempt[p] = MaxAttempts
        /\ (pc[p] = "restart" /\ attempt[p] = MaxAttempts /\ Moved(p))
              => pc'[p] = "failed"
        /\ Moved(p) => Measure(p)' < Measure(p) /\ Measure(p)' >= 0
      ]_vars

\* a call spent its fifth attempt and ended with the fatal error
C4_Witness == \E p \in Calls : pc[p] = "failed" /\ attempt[p] = MaxAttempts

\* C5 as stated: retry exhaustion is the only way a call ends with an error, so no
\* call ever ends with an error raised by a collaborator.
C5_OnlyExhaustionFails == \A p \in Calls : pc[p] # "error"

\* C5 amended: an error raised by the pool listing, the start command, the wait for
\* the running state, the reconciliation query or the stop of the surplus container
\* ends the call at once; an error raised by the launch, or by connecting to the
\* runtime after a start, is a HostSelectionRestart; an error raised by a probe
\* during enumeration, or by the container listing of the probe after a start, is
\* swallowed; a HostSelectionRestart leads to another attempt while the budget
\* lasts and only the fifth one ends the call.
C5_ErrorPropagation ==
    [][\A p \in Calls :
        /\ (pc'[p] = "error" /\ pc[p] # "error")
              => pc[p] \in {"list", "select", "wait", "verify", "stop"} /\ Faulted(p)
        /\ (Faulted(p) /\ pc[p] \in {"list", "select", "wait", "verify", "stop"})
              => pc'[p] = "error"
        /\ (Faulted(p) /\ pc[p] = "launch") => pc'[p] = "restart"
        /\ (Faulted(p) /\ pc[p] = "reprobe")
              => \/ pc'[p] = "restart"
                 \/ pc'[p] = "launch" /\ selected'[p].docker /\ selected'[p].containers = 0
        /\ (Faulted(p) /\ pc[p] = "probe") => pc'[p] \in {"probe", "select"}
        /\ (pc'[p] = "failed" /\ pc[p] # "failed")
              => pc[p] = "restart" /\ attempt[p] = MaxAttempts
        /\ (pc[p] = "restart" /\ attempt[p] < MaxAttempts /\ Moved(p))
              => pc'[p] = "list" /\ attempt'[p] = attempt[p] + 1
      ]_vars

\* a call ended with a collaborator's error while attempts were left
C5_Witness == \E p \in Calls : pc[p] = "error" /\ attempt[p] < MaxAttempts /\ faults > 0

\* the snapshots of an enumeration that are running, reachable and below capacity
WithCapacity(insts) ==
    {i \in Range(insts) : i.running /\ i.docker /\ i.containers < i.capacity}

NotRunning(insts) == {i \in Range(insts) : ~i.running}

LeastOccupied(R) == {i \in R : \A j \in R : i.containers <= j.containers}

Alone(p) == \A q \in Calls \ {p} : pc[q] = "idle"

\* C6: when the enumeration finds a running host with capacity, the hosts the
\* attempt can select are exactly the running-with-capacity snapshots of minimal
\* occupancy, the attempt goes on to launch on one of them and starts no host.
C6_SelectsLeastOccupied ==
    /\ [](\A p \in Calls :
            (pc[p] = "select" /\ WithCapacity(instances[p]) # {})
                => \A i \in Range(instances[p]) :
                    /\ (ENABLED SelectRunning(p, i))
                          <=> i \in LeastOccupied(WithCapacity(instances[p]))
                    /\ ~ENABLED StartInstance(p, i))
    /\ [][\A p \in Calls :
            (pc[p] = "select" /\ WithCapacity(instances[p]) # {} /\ Moved(p))
                => /\ pc'[p] = "launch"
                   /\ selected'[p] \in LeastOccupied(WithCapacity(instances[p]))
                   /\ hostState' = hostState
                   /\ starts'[p] = 0
         ]_vars

\* a lone call selected a host while another running host with capacity held more
C6_Witness ==
    \E p \in Calls :
        /\ Alone(p) /\ faults = 0
        /\ pc[p] = "launch" /\ starts[p] = 0
        /\ \E g \in pool \ {selected[p].instance} :
            /\ hostState[g] = "running"
            /\ Occupancy(g) > selected[p].containers
            /\ Occupancy(g) < DetectedCapacity(g)

\* C7: when the enumeration finds no running host with capacity and a stopped
\* host, the attempt issues exactly one start command, to a host its snapshot
\* showed as not running, and issues no other start before the pool is listed again.
C7_OneStartPerAttempt ==
    /\ [](\A p \in Calls :
            /\ starts[p] <= 1
            /\ pc[p] \in {"wait", "grace", "reprobe"} => starts[p] = 1)
    /\ [][/\ \A p \in Calls :
              /\ starts'[p] > starts[p]
                    => /\ pc[p] = "select" /\ WithCapacity(instances[p]) = {}
                       /\ selected'[p] \in NotRunning(instances[p])
                       /\ starts[p] = 0 /\ starts'[p] = 1
                       /\ \A h \in Hosts \ {selected'[p].instance} :
                              hostState'[h] = hostState[h]
              /\ (/\ pc[p] = "select" /\ WithCapacity(instances[p]) = {}
                  /\ NotRunning(instances[p]) # {} /\ Moved(p) /\ ~Faulted(p))
                    => starts'[p] = 1 /\ pc'[p] = "wait"
              /\ (starts[p] = 1 /\ starts'[p] = 0)
                    => pc'[p] \in {"restart", "error", "done"}
          /\ \A h \in Hosts :
              (hostState[h] = "stopped" /\ hostState'[h] # "stopped")
                    => \E p \in Calls : starts'[p] > starts[p] /\ selected'[p].instance = h
         ]_vars

\* a call issued its start command to a stopped host and waits for it
C7_Witness ==
    \E p \in Calls :
        /\ pc[p] = "wait" /\ starts[p] = 1
        /\ ~selected[p].running
        /\ hostState[selected[p].instance] = "pending"

LabelledOn(h) == {c \in docker : c.host = h /\ c.label = Label}

\* C8: the occupancy recorded by a probe and the count taken by the reconciliation
\* are the number of running containers carrying the label, every container the
\* engine launches carries the label and raises that count by one.
C8_LabelFiltering ==
    /\ [](\A c \in docker : c.owner \in Calls => c.label = Label)
    /\ [][\A p \in Calls :
            /\ Len(instances'[p]) = Len(instances[p]) + 1
                  => LET d == instances'[p][Len(instances'[p])]
                     IN d.containers =
                            IF d.docker /\ ~Faulted(p)
                            THEN Cardinality(LabelledOn(d.instance)) ELSE 0
            /\ (pc[p] = "reprobe" /\ pc'[p] = "launch")
                  => selected'[p].containers =
                         IF Faulted(p) THEN 0
                         ELSE Cardinality(LabelledOn(selected'[p].instance))
            /\ (pc[p] = "launch" /\ pc'[p] = "verify")
                  => /\ container'[p] \in docker' /\ container'[p].label = Label
                     /\ Cardinality({c \in docker' : c.host = container'[p].host
                                                        /\ c.label = Label}) =
                            Cardinality(LabelledOn(container'[p].host)) + 1
            /\ (pc[p] = "verify" /\ pc'[p] = "stop")
                  => Cardinality(LabelledOn(container[p].host)) > selected[p].capacity
            /\ (/\ pc[p] = "verify" /\ Moved(p) /\ ~Faulted(p)
                /\ Cardinality(LabelledOn(container[p].host)) <= selected[p].capacity)
                  => pc'[p] = "done"
         ]_vars

\* a host with one free slot and a container of another label was selected
C8_Witness ==
    \E p \in Calls :
        /\ pc[p] = "launch"
        /\ \E c \in docker : c.host = selected[p].instance /\ c.label = OtherLabel
        /\ selected[p].containers = Cardinality(LabelledOn(selected[p].instance))
        /\ selected[p].containers + 1 = selected[p].capacity

AtLeastLow(d) == d.base > BackdownLow \/ (d.base = BackdownLow /\ d.off >= 0)

BelowHigh(d) == d.base < BackdownHigh \/ (d.base = BackdownHigh /\ d.off < 0)

AtMostHigh(d) == d.base < BackdownHigh \/ (d.base = BackdownHigh /\ d.off <= 0)

\* the attempt of p that is sleeping issued no start, no launch and no stop
NothingIssued(p) == starts[p] = 0 /\ container[p] = None /\ selected[p] = None

\* C9 as stated: an attempt that finds no running host with capacity and no stopped
\* host sleeps for a duration in [60, 180) and has issued no start, launch or stop.
C9_BackdownHalfOpen ==
    \A p \in Calls :
        pc[p] = "backdown"
            => AtLeastLow(backdown[p]) /\ BelowHigh(backdown[p]) /\ NothingIssued(p)

\* C9 amended: such an attempt sleeps for a duration in [60, 180], both ends
\* included, only then raises HostSelectionRestart, and issues no start, no launch
\* and no stop.
C9_BackdownClosed ==
    /\ [](\A p \in Calls :
            pc[p] = "backdown"
                => AtLeastLow(backdown[p]) /\ AtMostHigh(backdown[p]) /\ NothingIssued(p))
    /\ [][\A p \in Calls :
            /\ (/\ pc[p] = "select" /\ Moved(p)
                /\ WithCapacity(instances[p]) = {} /\ NotRunning(instances[p]) = {})
                  => pc'[p] = "backdown" /\ docker' = docker /\ hostState' = hostState
            /\ (pc'[p] = "backdown" /\ pc[p] # "backdown")
                  => /\ pc[p] = "select"
                     /\ WithCapacity(instances[p]) = {} /\ NotRunning(instances[p]) = {}
            /\ (pc[p] = "backdown" /\ Moved(p))
                  => /\ pc'[p] = "restart" /\ faults' = faults
                     /\ docker' = docker /\ hostState' = hostState
         ]_vars

\* an attempt sleeps for exactly 180 seconds
C9_Witness ==
    \E p \in Calls :
        pc[p] = "backdown" /\ backdown[p] = [base |-> BackdownHigh, off |-> 0]

\* the pool held a running host below its capacity when the calls were made
RoomInitially ==
    \E h \in pool :
        initial.hostState[h] = "running" /\ InitialOccupancy(h) < DetectedCapacity(h)

\* C10: a call that runs alone, with no collaborator error, against a pool holding
\* a running host below its capacity stays in its first attempt, never fails, starts
\* no host, stops no container, and when it returns exactly one host runs exactly
\* one labelled container more: the returned one.
C10_SoloPlacement ==
    \A p \in Calls :
        (Alone(p) /\ faults = 0 /\ RoomInitially)
            => /\ attempt[p] = 1
               /\ pc[p] \in {"list", "probe", "select", "launch", "verify", "done"}
               /\ hostState = initial.hostState
               /\ initial.docker \subseteq docker
               /\ pc[p] = "done"
                     => /\ container[p] \notin initial.docker
                        /\ docker = initial.docker \cup {container[p]}
                        /\ \A h \in Hosts :
                              Occupancy(h) = InitialOccupancy(h) +
                                  (IF h = container[p].host THEN 1 ELSE 0)
                        /\ Occupancy(container[p].host) <= DetectedCapacity(container[p].host)

\* one running host of capacity 2 holding 1 container ends with 2
C10_Witness ==
    \E p \in Calls :
        /\ Alone(p) /\ faults = 0 /\ pc[p] = "done"
        /\ pool = {container[p].host}
        /\ DetectedCapacity(container[p].host) = 2
        /\ InitialOccupancy(container[p].host) = 1
        /\ Occupancy(container[p].host) = 2

\* the pool is the single host h, which was running at full occupancy
FullHost(h) ==
    /\ pool = {h}
    /\ initial.hostState[h] = "running"
    /\ InitialOccupancy(h) = DetectedCapacity(h)

\* call p is backing off, or has backed off, with an attempt left
BackingOff(p) == pc[p] \in {"backdown", "restart"} /\ attempt[p] < MaxAttempts

\* C11: a lone call against a pool of one running host at full occupancy starts no
\* host and launches nothing while the host is full; when the occupancy has dropped
\* below the capacity while the call backs off with an attempt left, the call
\* eventually returns a container running on that host.
C11_BackoffThenSuccess ==
    /\ [](\A p \in Calls : \A h \in Hosts :
            (Alone(p) /\ FullHost(h))
                => /\ pc[p] \notin {"wait", "grace", "reprobe", "stop"}
                   /\ (pc[p] = "backdown" => attempt[p] <= MaxAttempts /\ container[p] = None))
    /\ \A p \in Calls : \A h \in Hosts :
            (Alone(p) /\ FullHost(h) /\ BackingOff(p)
                      /\ Occupancy(h) < DetectedCapacity(h))
                ~> (pc[p] = "done" /\ container[p] \in docker /\ container[p].host = h)

\* a call that backed off at least once returned a container on the freed host
C11_Witness ==
    \E p \in Calls : \E h \in Hosts :
        /\ Alone(p) /\ FullHost(h)
        /\ pc[p] = "done" /\ attempt[p] > 1
        /\ container[p] \in docker /\ container[p].host = h
        /\ Occupancy(h) <= DetectedCapacity(h)

\* the creation timestamps of the k most recently created containers of cs
Newest(cs, k) ==
    {c.id : c \in {c \in cs : Cardinality({d \in cs : d.id > c.id}) < k}}

\* C12: when the reconciliation of an attempt finds n labelled containers on its
\* host and n exceeds the capacity c of the host, the surplus it computes is the
\* set of the n - c most recently created of them (no collaborator error needed).
C12_SurplusIsNewestExcess ==
    \A p \in Calls :
        (pc[p] = "verify" /\ faults = 0)
            => LET cs == LabelledOn(selected[p].instance)
                   n == Cardinality(cs)
                   c == selected[p].capacity
               IN n > c => Range(Surplus(cs)) = Newest(cs, n - c)

\* C13: a container leaves a daemon only when the call that launched it, in its
\* current attempt, stops it as surplus: containers of other calls, containers
\* returned earlier, containers that ran before and unlabelled containers stay.
C13_StopsOnlyOwn ==
    [][\A c \in docker \ docker' :
          \E p \in Calls :
              /\ pc[p] = "stop" /\ Moved(p)
              /\ c = container[p] /\ c.owner = p /\ c.label = Label
              /\ docker \ docker' = {c}
              /\ \A d \in docker : d.owner = p => d.id <= c.id
      ]_vars

\* a call stopped its own container and the container of another call runs on
\* the same host
C13_Witness ==
    \E p \in Calls :
        /\ pc[p] = "restart" /\ container[p] # None /\ container[p] \notin docker
        /\ \E c \in docker : c.owner \in Calls \ {p} /\ c.host = container[p].host

\* C14: when a step of the probe of a running host raises during enumeration, the
\* snapshot of that host has no runtime connection and occupancy 0, the attempt
\* goes on, and the host is not among the running hosts with capacity.
C14_ProbeFailureExcludesHost ==
    [][\A p \in Calls :
          (pc[p] = "probe" /\ Faulted(p))
              => LET d == instances'[p][Len(instances'[p])]
                 IN /\ Len(instances'[p]) = Len(instances[p]) + 1
                    /\ pc'[p] \in {"probe", "select"}
                    /\ ~d.docker /\ d.containers = 0
                    /\ d \notin WithCapacity(instances'[p])
      ]_vars

\* the pool is the single host h, which was stopped, and h has room for a container
StoppedHost(h) ==
    /\ pool = {h}
    /\ initial.hostState[h] = "stopped"
    /\ DetectedCapacity(h) >= 1

\* C15: on the path that starts a host, the start command comes first, the wait
\* ends when the provider reports the host running, then comes the sleep, then the
\* probe of that host, then the launch; a probe that finds no runtime ends the
\* attempt with HostSelectionRestart and nothing launched; a lone call against one
\* stopped host with room, with no collaborator error, returns in its first
\* attempt with one container running on the started host.
C15_StoppedHostPath ==
    /\ [][\A p \in Calls :
            /\ (pc'[p] = "wait" /\ pc[p] # "wait")
                  => /\ pc[p] = "select" /\ starts[p] = 0 /\ starts'[p] = 1
                     /\ hostState'[selected'[p].instance] # "stopped"
            /\ (pc'[p] = "grace" /\ pc[p] # "grace")
                  => pc[p] = "wait" /\ hostState[selected[p].instance] = "running"
            /\ (pc'[p] = "reprobe" /\ pc[p] # "reprobe") => pc[p] = "grace"
            /\ (pc'[p] = "launch" /\ pc[p] # "launch" /\ starts[p] = 1)
                  => /\ pc[p] = "reprobe"
                     /\ selected'[p].instance = selected[p].instance
                     /\ selected'[p].running /\ selected'[p].docker
            /\ (pc[p] = "reprobe" /\ Moved(p))
                  => /\ pc'[p] \in {"launch", "restart"}
                     /\ docker' = docker /\ container'[p] = None
                     /\ hostState[selected[p].instance] # "running" => pc'[p] = "restart"
            /\ (pc'[p] = "verify" /\ pc[p] # "verify") => pc[p] = "launch"
         ]_vars
    /\ [](\A p \in Calls : \A h \in Hosts :
            (Alone(p) /\ faults = 0 /\ StoppedHost(h))
                => /\ attempt[p] = 1
                   /\ pc[p] \notin {"backdown", "stop", "restart", "failed", "error"}
                   /\ pc[p] = "done"
                         => /\ container[p] \in docker /\ container[p].host = h
                            /\ hostState[h] = "running"
                            /\ Occupancy(h) = 1)

\* a lone call started the one stopped host of capacity 1 and returned a container
C15_Witness ==
    \E p \in Calls : \E h \in Hosts :
        /\ Alone(p) /\ faults = 0 /\ StoppedHost(h) /\ DetectedCapacity(h) = 1
        /\ pc[p] = "done" /\ container[p].host = h
        /\ hostState[h] = "running" /\ Occupancy(h) = 1

\* C16: two calls racing for the one slot of an empty running host of capacity 1,
\* with no collaborator error, do not both end with retry exhaustion while the
\* host runs no container.
C16_RaceHasAWinner ==
    \A p, q \in Calls : \A h \in Hosts :
        (/\ TwoWay(p, q) /\ faults = 0
         /\ pool = {h} /\ initial.hostState[h] = "running"
         /\ DetectedCapacity(h) = 1 /\ InitialOccupancy(h) = 0
         /\ Occupancy(h) = 0)
            => ~(pc[p] = "failed" /\ pc[q] = "failed")

\* C17: an attempt that is about to launch holds a snapshot of its host that is
\* running, has a runtime connection and an occupancy below the capacity.
C17_LaunchOnlyWithCapacity ==
    \A p \in Calls :
        pc[p] = "launch"
            => /\ selected[p].running /\ selected[p].docker
               /\ selected[p].containers < selected[p].capacity

\* C18: once a call has ended with an error no container it launched runs, and
\* once it has returned the only container it launched that runs is the returned one.
C18_NoContainerLeftBehind ==
    \A p \in Calls :
        /\ pc[p] \in {"error", "failed"} => \A c \in docker : c.owner # p
        /\ pc[p] = "done" => \A c \in docker : c.owner = p => c = container[p]

\* the snapshots call p holds
Snapshots(p) ==
    Range(instances[p]) \cup (IF selected[p] = None THEN {} ELSE {selected[p]})

\* C19: a snapshot is running exactly when the instance state it was built from is
\* "running"; a snapshot that is not running has no runtime connection and
\* occupancy 0, in the enumeration and in the probe after a start, where it ends
\* the attempt with HostSelectionRestart.
C19_NotRunningNotReachable ==
    /\ [](\A p \in Calls : \A i \in Snapshots(p) :
            ~i.running => ~i.docker /\ i.containers = 0)
    /\ [][\A p \in Calls :
            /\ Len(instances'[p]) = Len(instances[p]) + 1
                  => LET d == instances'[p][Len(instances'[p])]
                     IN d.running <=> listed[p][d.instance] = "running"
            /\ (/\ pc[p] = "reprobe" /\ Moved(p)
                /\ hostState[selected[p].instance] # "running")
                  => pc'[p] = "restart" /\ container'[p] = None /\ docker' = docker
         ]_vars

\* the probe after the start found the one host of the pool shut down again and
\* the first attempt ended with nothing launched
C19_Witness ==
    \E p \in Calls : \E h \in Hosts :
        /\ Alone(p) /\ faults = 0
        /\ pool = {h} /\ initial.hostState[h] = "stopped" /\ hostState[h] = "stopped"
        /\ pc[p] = "restart" /\ attempt[p] = 1 /\ container[p] = None

====
